---- MODULE Spec2Model ----
(***************************************************************************)
(* Account lifecycle of UpTask_backend: src/src/controllers/AuthController *)
(* (.ts).  Every handler is an async function; each awaited persistence    *)
(* call is one atomic step of the model: the call's effect on the store    *)
(* together with the synchronous code that runs up to the next awaited     *)
(* persistence call.  Requests are served concurrently in MaxProcs request *)
(* slots.  Every persistence call may be rejected (ok = FALSE).            *)
(*                                                                         *)
(* Request inputs that a handler reads only at a later step (the new       *)
(* password of a reset, the name of a profile update) are drawn at the     *)
(* step that reads them; a loaded User document keeps the fields a handler *)
(* reads or writes after the load (id, email, confirmed).                  *)
(***************************************************************************)
EXTENDS Integers, FiniteSets, Sequences, TLC

\* ------------------------------------------------------------------ bounds
MaxProcs == 2
MaxUsers == 2
MaxCodes == 3
MaxFaults == 1
MaxRequests == 4
MaxAccounts == 3
MaxProjects == 2
MaxTasks == 2

Procs == 1..MaxProcs
Uids == 1..MaxUsers
Codes == 1..MaxCodes
Emails == {"a@x.com", "b@x.com"}
Passwords == {"pw1", "pw2"}
\* Passwords are interchangeable: a registration draws from the first only.
NewPasswords == {"pw1"}
Names == {"Ann"}

Null == [none |-> TRUE]

\* ------------------------------------------------------------------ state
VARIABLES
    users,      \* User collection: id -> [email, password, name, confirmed]
    tokens,     \* Token collection: set of [token, user]
    nextUid,    \* ids handed out by `new User` so far + 1
    nextCode,   \* codes stored by a Token save so far + 1
    consumed,   \* history: codes with which confirm / reset reported success
    faults,     \* persistence calls rejected so far
    started,    \* requests received so far
    resetCodes, \* history: codes that forgotPassword stored
    req,        \* per request slot: handler, position, locals
    last,       \* the response sent by the latest step, Null if it sent none
    projects,   \* Project collection: id -> [manager, team]
    tasks,      \* Task collection: id -> [project, status]
    nextProject, \* project ids handed out so far + 1
    nextTask,   \* task ids handed out so far + 1
    served,     \* requests the project router has received so far
    rreq,       \* the request in the project router: route, position, locals
    rlast       \* how the latest router step ended its request, Null if it did not

authVars == <<users, tokens, nextUid, nextCode, consumed, faults, started, resetCodes, req, last>>

routerVars == <<projects, tasks, nextProject, nextTask, served, rreq, rlast>>

vars == <<users, tokens, nextUid, nextCode, consumed, faults, started, resetCodes, req, last,
          projects, tasks, nextProject, nextTask, served, rreq, rlast>>

\* A request slot with no request in flight.
NoReq ==
    [op |-> "none", pc |-> "idle", token |-> 0, email |-> "", password |-> "",
     user |-> Null, prev |-> Null, pending |-> {},
     nIssued |-> 0, nSent |-> 0, nDeleted |-> 0, nUsers |-> 0,
     late |-> FALSE, dup |-> FALSE]

\* The project router with no request in it.
NoRoute ==
    [route |-> "none", stage |-> 0, account |-> 0, project |-> Null,
     task |-> Null, gate |-> "none"]

\* ---------------------------------------------------------------- helpers
\* utils/auth: bcrypt hash and compare, as a tagged one-way wrapper.
hashPassword(password) == <<"bcrypt", password>>

checkPassword(password, hash) == hash = hashPassword(password)

\* A document read from the User collection.
UserDoc(id) == [id |-> id, email |-> users[id].email, name |-> users[id].name,
                confirmed |-> users[id].confirmed]

\* User.findOne({email}): the matching documents.
UsersByEmail(email) == {id \in DOMAIN users : users[id].email = email}

\* Token.findOne({token}) / Token.findOne({user}): the matching documents.
TokensByCode(code) == {t \in tokens : t.token = code}

TokensByUser(id) == {t \in tokens : t.user = id}

\* The unique index on User.email: a write of `email` to document `id` is
\* rejected when another document holds that email.
EmailFree(id, email) == \A other \in DOMAIN users : other = id \/ users[other].email # email

\* The response of request r: handler, status, the presented token and email,
\* whether a handler had reported success with that token before, whether the
\* email lookup found the email taken, the password a login on a confirmed
\* account supplied, the account the handler loaded, the code it stored, and
\* what it did.
Event(r, status, code) ==
    [op |-> r.op, res |-> status, token |-> r.token, email |-> r.email,
     password |-> r.password,
     used |-> r.token \in consumed,
     uid |-> IF r.user = Null THEN 0 ELSE r.user.id,
     unconf |-> IF r.user = Null THEN FALSE ELSE ~r.user.confirmed,
     tok |-> code,
     nIssued |-> r.nIssued, nSent |-> r.nSent,
     nDeleted |-> r.nDeleted, nUsers |-> r.nUsers, late |-> r.late, dup |-> r.dup]

\* The handler goes on to its next awaited call.
Goto(p, r) ==
    /\ req' = [req EXCEPT ![p] = r]
    /\ last' = Null

\* The handler ends: res.send / res.status().json, or (status "none") an
\* unhandled rejection that leaves the request without a response.
Respond(p, r, status, code) ==
    /\ req' = [req EXCEPT ![p] = NoReq]
    /\ last' = Event(r, status, code)

\* Handlers that will store a Token document and have not yet.
WillIssue(r) ==
    \/ r.op = "createAccount" /\ "token" \in r.pending
    \/ r.op = "login" /\ r.pc \in {"lg_prev", "lg_del", "lg_save"}
    \/ r.op = "requestConfirmationCode" /\ r.pc \in {"rc_prev", "rc_del", "rc_save"}
    \/ r.op = "forgotPassword" /\ r.pc \in {"fp_prev", "fp_del", "fp_save"}

\* A new request may still come to store a token (bound on fresh codes).
CodeLeft == nextCode + Cardinality({q \in Procs : WillIssue(req[q])}) <= MaxCodes

\* utils/token generateToken: a code no stored token has carried.
generateToken == nextCode

Init ==
    /\ users = <<>>
    /\ tokens = {}
    /\ nextUid = 1
    /\ nextCode = 1
    /\ consumed = {}
    /\ faults = 0
    /\ started = 0
    /\ resetCodes = {}
    /\ req = [p \in Procs |-> NoReq]
    /\ last = Null
    /\ projects = <<>>
    /\ tasks = <<>>
    /\ nextProject = 1
    /\ nextTask = 1
    /\ served = 0
    /\ rreq = NoRoute
    /\ rlast = Null

\* ---------------------------------------------------------- createAccount
\* The handler without its duplicate check.
createAccount_find_unchecked(p, email, password, name, ok) ==
    /\ req[p].pc = "idle"
    /\ nextUid <= MaxUsers
    /\ CodeLeft
    /\ LET r0 == [NoReq EXCEPT !.op = "createAccount", !.email = email,
                               !.dup = ok /\ UsersByEmail(email) # {}]
       IN IF ~ok
          THEN Respond(p, r0, "500", 0) /\ UNCHANGED nextUid
          ELSE /\ Goto(p, [r0 EXCEPT !.pc = "ca_saves",
                                     !.user = [id |-> nextUid, email |-> email,
                                               password |-> hashPassword(password),
                                               name |-> name, confirmed |-> FALSE],
                                     !.pending = {"user", "token"},
                                     !.nSent = 1])
               /\ nextUid' = nextUid + 1
    /\ UNCHANGED <<users, tokens, nextCode>>

\* lines 14-38: duplicate check, new User, hashPassword, new Token,
\* sendConfirmationEmail (before either save).
createAccount_find(p, email, password, name, ok) ==
    /\ req[p].pc = "idle"
    /\ nextUid <= MaxUsers
    /\ CodeLeft
    /\ LET r0 == [NoReq EXCEPT !.op = "createAccount", !.email = email,
                               !.dup = ok /\ UsersByEmail(email) # {}]
       IN IF ~ok
          THEN Respond(p, r0, "500", 0) /\ UNCHANGED nextUid
          ELSE IF UsersByEmail(email) # {}
          THEN Respond(p, r0, "409", 0) /\ UNCHANGED nextUid
          ELSE /\ Goto(p, [r0 EXCEPT !.pc = "ca_saves",
                                     !.user = [id |-> nextUid, email |-> email,
                                               password |-> hashPassword(password),
                                               name |-> name, confirmed |-> FALSE],
                                     !.pending = {"user", "token"},
                                     !.nSent = 1])
               /\ nextUid' = nextUid + 1
    /\ UNCHANGED <<users, tokens, nextCode>>

\* lines 40-41, 61-62, 225-227: Promise.allSettled once `done` has settled;
\* the 200 is sent when nothing is pending, whatever the outcomes.
Settle(p, r, done, code) ==
    IF r.pending \ {done} = {}
    THEN Respond(p, r, "200", code)
    ELSE Goto(p, [r EXCEPT !.pending = r.pending \ {done}])

\* line 40: user.save() of the new document.
createAccount_saveUser(p, ok) ==
    /\ req[p].op = "createAccount" /\ req[p].pc = "ca_saves"
    /\ "user" \in req[p].pending
    /\ LET r == req[p]
           u == r.user
           stored == ok /\ EmailFree(u.id, u.email)
       IN /\ users' = IF stored
                      THEN (u.id :> [email |-> u.email, password |-> u.password,
                                     name |-> u.name, confirmed |-> u.confirmed]) @@ users
                      ELSE users
          /\ Settle(p, [r EXCEPT !.nUsers = IF stored THEN 1 ELSE 0], "user", 0)
    /\ UNCHANGED <<tokens, nextUid, nextCode>>

\* lines 29-31, 40: token.save() of the new document.
createAccount_saveToken(p, ok) ==
    /\ req[p].op = "createAccount" /\ req[p].pc = "ca_saves"
    /\ "token" \in req[p].pending
    /\ LET r == req[p]
           t == [token |-> generateToken, user |-> r.user.id]
       IN /\ tokens' = IF ok THEN tokens \cup {t} ELSE tokens
          /\ nextCode' = IF ok THEN nextCode + 1 ELSE nextCode
          /\ Settle(p, [r EXCEPT !.nIssued = IF ok THEN 1 ELSE 0], "token",
                    IF ok THEN t.token ELSE 0)
    /\ UNCHANGED <<users, nextUid>>

createAccount(p, ok) ==
    \/ \E email \in Emails, password \in NewPasswords, name \in Names :
           createAccount_find(p, email, password, name, ok)
    \/ createAccount_saveUser(p, ok)
    \/ createAccount_saveToken(p, ok)

\* --------------------------------------------------------- confirmAccount
\* user.save() that writes the whole loaded document back.
saveUser_overwrite(store, doc, changes) ==
    [store EXCEPT ![doc.id] =
        changes @@ [email |-> doc.email, name |-> doc.name, confirmed |-> doc.confirmed] @@ @]

\* user.save() of a loaded document: Mongoose writes the modified paths only
\* ($set of `changes`), so the other stored fields keep their current value.
saveUser(store, doc, changes) ==
    [store EXCEPT ![doc.id] = changes @@ @]

\* The lookup accepts a code only for the purpose it was issued for.
findToken_purpose(p, op, next, code, ok) ==
    /\ req[p].pc = "idle"
    /\ LET r0 == [NoReq EXCEPT !.op = op, !.token = code, !.late = code \in consumed]
           forOp == IF op = "confirmAccount" THEN code \notin resetCodes
                                             ELSE code \in resetCodes
       IN IF ~ok THEN Respond(p, r0, "500", 0)
          ELSE IF TokensByCode(code) = {} \/ ~forOp THEN Respond(p, r0, "404", 0)
          ELSE IF next = "idle" THEN Respond(p, r0, "200", 0)
          ELSE Goto(p, [r0 EXCEPT !.pc = next,
                                  !.prev = CHOOSE t \in TokensByCode(code) : TRUE])
    /\ UNCHANGED <<users, tokens, nextUid, nextCode>>

\* Token.findOne({token}) of a handler that is presented a code
\* (lines 51-56, 198-203, 216-220): 404 when no document matches.
findToken(p, op, next, code, ok) ==
    /\ req[p].pc = "idle"
    /\ LET r0 == [NoReq EXCEPT !.op = op, !.token = code, !.late = code \in consumed]
       IN IF ~ok THEN Respond(p, r0, "500", 0)
          ELSE IF TokensByCode(code) = {} THEN Respond(p, r0, "404", 0)
          ELSE IF next = "idle" THEN Respond(p, r0, "200", 0)
          ELSE Goto(p, [r0 EXCEPT !.pc = next,
                                  !.prev = CHOOSE t \in TokensByCode(code) : TRUE])
    /\ UNCHANGED <<users, tokens, nextUid, nextCode>>

\* User.findById(token.user) (lines 58-59, 222-223): assigning to a field of
\* a null user throws, and the catch answers 500.
findTokenUser(p, op, at, next, ok) ==
    /\ req[p].op = op /\ req[p].pc = at
    /\ LET r == req[p]
       IN IF ~ok \/ r.prev.user \notin DOMAIN users THEN Respond(p, r, "500", 0)
          ELSE Goto(p, [r EXCEPT !.pc = next, !.user = UserDoc(r.prev.user),
                                 !.pending = {"user", "token"}])
    /\ UNCHANGED <<users, tokens, nextUid, nextCode>>

\* user.save() inside Promise.allSettled (lines 61, 225).
settleSaveUser(p, op, at, changes, ok) ==
    /\ req[p].op = op /\ req[p].pc = at
    /\ "user" \in req[p].pending
    /\ LET r == req[p]
       IN /\ users' = IF ok THEN saveUser(users, r.user, changes) ELSE users
          /\ Settle(p, [r EXCEPT !.nUsers = IF ok THEN 1 ELSE 0], "user", 0)
    /\ UNCHANGED <<tokens, nextUid, nextCode>>

\* token.deleteOne() inside Promise.allSettled (lines 61, 225); deleting a
\* document that is already gone resolves.
settleDeleteToken(p, op, at, ok) ==
    /\ req[p].op = op /\ req[p].pc = at
    /\ "token" \in req[p].pending
    /\ LET r == req[p]
       IN /\ tokens' = IF ok THEN tokens \ {r.prev} ELSE tokens
          /\ Settle(p, [r EXCEPT !.nDeleted = IF ok THEN 1 ELSE 0], "token", 0)
    /\ UNCHANGED <<users, nextUid, nextCode>>

confirmAccount_findToken(p, code, ok) == findToken(p, "confirmAccount", "cf_user", code, ok)

confirmAccount_findUser(p, ok) == findTokenUser(p, "confirmAccount", "cf_user", "cf_saves", ok)

\* lines 59, 61: user.confirmed = true; user.save().
confirmAccount_saveUser(p, ok) ==
    settleSaveUser(p, "confirmAccount", "cf_saves", [confirmed |-> TRUE], ok)

confirmAccount_deleteToken(p, ok) == settleDeleteToken(p, "confirmAccount", "cf_saves", ok)

confirmAccount(p, ok) ==
    \/ \E code \in Codes : confirmAccount_findToken(p, code, ok)
    \/ confirmAccount_findUser(p, ok)
    \/ confirmAccount_saveUser(p, ok)
    \/ confirmAccount_deleteToken(p, ok)

\* ------------------------------------------------------------------ login
\* A confirmed account gets its credential whatever the password.
login_findUser_anyPassword(p, email, password, ok) ==
    /\ req[p].pc = "idle"
    /\ CodeLeft
    /\ LET r0 == [NoReq EXCEPT !.op = "login"]
           found == UsersByEmail(email)
           id == CHOOSE i \in found : TRUE
           r1 == [r0 EXCEPT !.user = UserDoc(id)]
       IN IF ~ok THEN Respond(p, r0, "500", 0)
          ELSE IF found = {} THEN Respond(p, r0, "404", 0)
          ELSE IF ~users[id].confirmed THEN Goto(p, [r1 EXCEPT !.pc = "lg_prev"])
          ELSE Respond(p, [r1 EXCEPT !.password = password], "jwt", 0)
    /\ UNCHANGED <<users, tokens, nextUid, nextCode>>

\* lines 70-79 and 103-113: User.findOne({email}); a confirmed account goes
\* on to checkPassword and generateJWT, an unconfirmed one to the token path.
login_findUser(p, email, password, ok) ==
    /\ req[p].pc = "idle"
    /\ CodeLeft
    /\ LET r0 == [NoReq EXCEPT !.op = "login"]
           found == UsersByEmail(email)
           id == CHOOSE i \in found : TRUE
           r1 == [r0 EXCEPT !.user = UserDoc(id)]
       IN IF ~ok THEN Respond(p, r0, "500", 0)
          ELSE IF found = {} THEN Respond(p, r0, "404", 0)
          ELSE IF ~users[id].confirmed THEN Goto(p, [r1 EXCEPT !.pc = "lg_prev"])
          ELSE IF ~checkPassword(password, users[id].password)
          THEN Respond(p, [r1 EXCEPT !.password = password], "404", 0)
          ELSE Respond(p, [r1 EXCEPT !.password = password], "jwt", 0)
    /\ UNCHANGED <<users, tokens, nextUid, nextCode>>

\* Token.findOne({user: user.id}) (lines 81, 135, 170): any matching document
\* may be the one returned; none leaves previousToken null.
findPrevious(p, op, at, del, save, ok) ==
    /\ req[p].op = op /\ req[p].pc = at
    /\ LET r == req[p]
           found == TokensByUser(r.user.id)
       IN IF ~ok THEN Respond(p, r, "500", 0)
          ELSE IF found = {} THEN Goto(p, [r EXCEPT !.pc = save])
          ELSE \E t \in found : Goto(p, [r EXCEPT !.pc = del, !.prev = t])
    /\ UNCHANGED <<users, tokens, nextUid, nextCode>>

\* The handler goes on to the save and leaves the previous token in place.
deletePrevious_keep(p, op, at, save, ok) ==
    /\ req[p].op = op /\ req[p].pc = at
    /\ IF ~ok THEN Respond(p, req[p], "500", 0) ELSE Goto(p, [req[p] EXCEPT !.pc = save])
    /\ UNCHANGED <<users, tokens, nextUid, nextCode>>

\* previousToken.deleteOne() (lines 84, 138, 173): a rejection reaches the catch.
deletePrevious(p, op, at, save, ok) ==
    /\ req[p].op = op /\ req[p].pc = at
    /\ LET r == req[p]
       IN IF ~ok
          THEN Respond(p, r, "500", 0) /\ UNCHANGED tokens
          ELSE /\ Goto(p, [r EXCEPT !.pc = save,
                                    !.nDeleted = IF r.prev \in tokens THEN 1 ELSE 0])
               /\ tokens' = tokens \ {r.prev}
    /\ UNCHANGED <<users, nextUid, nextCode>>

\* new Token, generateToken, token.save() and the response that follows
\* (lines 87-100, 141-153, 176-188).  `before` is the number of emails the
\* handler sends before the save, `after` the number it sends once the save
\* has resolved.
saveToken(p, op, at, before, after, status, ok) ==
    /\ req[p].op = op /\ req[p].pc = at
    /\ LET r == [req[p] EXCEPT !.nSent = before]
           t == [token |-> generateToken, user |-> r.user.id]
       IN IF ~ok
          THEN Respond(p, r, "500", 0) /\ UNCHANGED <<tokens, nextCode>>
          ELSE /\ tokens' = tokens \cup {t}
               /\ nextCode' = nextCode + 1
               /\ Respond(p, [r EXCEPT !.nIssued = 1, !.nSent = before + after],
                          status, t.token)
    /\ UNCHANGED <<users, nextUid>>

login_findPrevious(p, ok) == findPrevious(p, "login", "lg_prev", "lg_del", "lg_save", ok)

login_deletePrevious(p, ok) == deletePrevious(p, "login", "lg_del", "lg_save", ok)

\* The confirmation email goes out before the save.
login_saveToken_mailFirst(p, ok) == saveToken(p, "login", "lg_save", 1, 0, "401", ok)

\* lines 87-100: the save, then sendConfirmationEmail and the 401.
login_saveToken(p, ok) == saveToken(p, "login", "lg_save", 0, 1, "401", ok)

login(p, ok) ==
    \/ \E email \in Emails, password \in Passwords :
           login_findUser(p, email, password, ok)
    \/ login_findPrevious(p, ok)
    \/ login_deletePrevious(p, ok)
    \/ login_saveToken(p, ok)

\* ------------------------------------------------ requestConfirmationCode
\* The handler goes on for a confirmed account as well.
requestConfirmationCode_findUser_anyState(p, email, ok) ==
    /\ req[p].pc = "idle"
    /\ CodeLeft
    /\ LET r0 == [NoReq EXCEPT !.op = "requestConfirmationCode"]
           found == UsersByEmail(email)
           id == CHOOSE i \in found : TRUE
           r1 == [r0 EXCEPT !.user = UserDoc(id)]
       IN IF ~ok THEN Respond(p, r0, "500", 0)
          ELSE IF found = {} THEN Respond(p, r0, "404", 0)
          ELSE Goto(p, [r1 EXCEPT !.pc = "rc_prev"])
    /\ UNCHANGED <<users, tokens, nextUid, nextCode>>

\* lines 121-133: User.findOne({email}); 404 unknown, 403 already confirmed.
requestConfirmationCode_findUser(p, email, ok) ==
    /\ req[p].pc = "idle"
    /\ CodeLeft
    /\ LET r0 == [NoReq EXCEPT !.op = "requestConfirmationCode"]
           found == UsersByEmail(email)
           id == CHOOSE i \in found : TRUE
           r1 == [r0 EXCEPT !.user = UserDoc(id)]
       IN IF ~ok THEN Respond(p, r0, "500", 0)
          ELSE IF found = {} THEN Respond(p, r0, "404", 0)
          ELSE IF users[id].confirmed THEN Respond(p, r1, "403", 0)
          ELSE Goto(p, [r1 EXCEPT !.pc = "rc_prev"])
    /\ UNCHANGED <<users, tokens, nextUid, nextCode>>

requestConfirmationCode_findPrevious(p, ok) ==
    findPrevious(p, "requestConfirmationCode", "rc_prev", "rc_del", "rc_save", ok)

requestConfirmationCode_deletePrevious(p, ok) ==
    deletePrevious(p, "requestConfirmationCode", "rc_del", "rc_save", ok)

\* lines 141-153: sendConfirmationEmail, then the save and the 200.
requestConfirmationCode_saveToken(p, ok) ==
    saveToken(p, "requestConfirmationCode", "rc_save", 1, 0, "200", ok)

requestConfirmationCode(p, ok) ==
    \/ \E email \in Emails : requestConfirmationCode_findUser(p, email, ok)
    \/ requestConfirmationCode_findPrevious(p, ok)
    \/ requestConfirmationCode_deletePrevious(p, ok)
    \/ requestConfirmationCode_saveToken(p, ok)

\* --------------------------------------------------------- forgotPassword
\* lines 161-168: User.findOne({email}); 404 unknown.
forgotPassword_findUser(p, email, ok) ==
    /\ req[p].pc = "idle"
    /\ CodeLeft
    /\ LET r0 == [NoReq EXCEPT !.op = "forgotPassword"]
           found == UsersByEmail(email)
           id == CHOOSE i \in found : TRUE
       IN IF ~ok THEN Respond(p, r0, "500", 0)
          ELSE IF found = {} THEN Respond(p, r0, "404", 0)
          ELSE Goto(p, [r0 EXCEPT !.pc = "fp_prev", !.user = UserDoc(id)])
    /\ UNCHANGED <<users, tokens, nextUid, nextCode>>

forgotPassword_findPrevious(p, ok) ==
    findPrevious(p, "forgotPassword", "fp_prev", "fp_del", "fp_save", ok)

forgotPassword_deletePrevious(p, ok) ==
    deletePrevious(p, "forgotPassword", "fp_del", "fp_save", ok)

\* lines 176-188: the save, then sendPasswordResetToken and the 200.
forgotPassword_saveToken(p, ok) == saveToken(p, "forgotPassword", "fp_save", 0, 1, "200", ok)

forgotPassword(p, ok) ==
    \/ \E email \in Emails : forgotPassword_findUser(p, email, ok)
    \/ forgotPassword_findPrevious(p, ok)
    \/ forgotPassword_deletePrevious(p, ok)
    \/ forgotPassword_saveToken(p, ok)

\* ---------------------------------------------------------- validateToken
\* The validation deletes the token it finds.
validateToken_consumes(p, ok) ==
    \E code \in Codes :
        /\ req[p].pc = "idle"
        /\ LET r0 == [NoReq EXCEPT !.op = "validateToken", !.token = code,
                                   !.late = code \in consumed]
           IN IF ~ok THEN Respond(p, r0, "500", 0) /\ UNCHANGED tokens
              ELSE IF TokensByCode(code) = {} THEN Respond(p, r0, "404", 0) /\ UNCHANGED tokens
              ELSE Respond(p, r0, "200", 0) /\ tokens' = tokens \ TokensByCode(code)
        /\ UNCHANGED <<users, nextUid, nextCode>>

\* lines 196-205: Token.findOne({token}); 404 or 200, nothing written.
validateToken(p, ok) ==
    \E code \in Codes : findToken(p, "validateToken", "idle", code, ok)

\* ------------------------------------------------ updatePasswordWithToken
updatePasswordWithToken_findToken(p, code, ok) ==
    findToken(p, "updatePasswordWithToken", "pw_user", code, ok)

updatePasswordWithToken_findUser(p, ok) ==
    findTokenUser(p, "updatePasswordWithToken", "pw_user", "pw_saves", ok)

\* The reset marks the account confirmed as well.
updatePasswordWithToken_saveUser_confirms(p, password, ok) ==
    settleSaveUser(p, "updatePasswordWithToken", "pw_saves",
                   [password |-> hashPassword(password), confirmed |-> TRUE], ok)

\* lines 223, 225: user.password = await hashPassword(password); user.save().
updatePasswordWithToken_saveUser(p, password, ok) ==
    settleSaveUser(p, "updatePasswordWithToken", "pw_saves",
                   [password |-> hashPassword(password)], ok)

updatePasswordWithToken_deleteToken(p, ok) ==
    settleDeleteToken(p, "updatePasswordWithToken", "pw_saves", ok)

updatePasswordWithToken(p, ok) ==
    \/ \E code \in Codes : updatePasswordWithToken_findToken(p, code, ok)
    \/ updatePasswordWithToken_findUser(p, ok)
    \/ \E password \in Passwords :
           updatePasswordWithToken_saveUser(p, password, ok)
    \/ updatePasswordWithToken_deleteToken(p, ok)



\* ----------------------------------------------------------- authenticate
\* middleware/auth (router level): the bearer credential was signed by
\* generateJWT (line 111), which only a confirmed account reaches; the
\* middleware loads that account into req.user.
authenticate(p, u, op, first, ok) ==
    /\ req[p].pc = "idle"
    /\ u \in DOMAIN users /\ users[u].confirmed
    /\ LET r0 == [NoReq EXCEPT !.op = op]
       IN IF ~ok THEN Respond(p, r0, "500", 0)
          ELSE Goto(p, [r0 EXCEPT !.pc = first, !.user = UserDoc(u)])
    /\ UNCHANGED <<users, tokens, nextUid, nextCode>>

\* ------------------------------------------------------------------- user
\* lines 233-235: res.json(req.user).
user(p, ok) ==
    \/ \E u \in Uids : authenticate(p, u, "user", "us_send", ok)
    \/ /\ req[p].op = "user" /\ req[p].pc = "us_send"
       /\ ok
       /\ Respond(p, req[p], "200", 0)
       /\ UNCHANGED <<users, tokens, nextUid, nextCode>>

\* ---------------------------------------------------------- updateProfile
\* lines 238-248: User.findOne({email}) outside any try (a rejection leaves
\* the request unanswered); 409 when another account owns the email.
updateProfile_find(p, email, ok) ==
    /\ req[p].op = "updateProfile" /\ req[p].pc = "up_find"
    /\ LET found == UsersByEmail(email)
           r == [req[p] EXCEPT !.email = email,
                               !.dup = ok /\ \E id \in found : id # req[p].user.id]
       IN IF ~ok THEN Respond(p, r, "none", 0)
          ELSE IF \E id \in found : id # r.user.id THEN Respond(p, r, "409", 0)
          ELSE Goto(p, [r EXCEPT !.pc = "up_save"])
    /\ UNCHANGED <<users, tokens, nextUid, nextCode>>

\* The paths of `doc` that assigning `values` modifies.
Modified(doc, values) ==
    [f \in {g \in DOMAIN values : values[g] # doc[g]} |-> values[f]]

\* lines 247-255: req.user.name = name; req.user.email = email;
\* req.user.save() inside try: 200, or 500 when the save is rejected.
updateProfile_save(p, name, ok) ==
    /\ req[p].op = "updateProfile" /\ req[p].pc = "up_save"
    /\ LET r == req[p]
           changes == Modified(r.user, [name |-> name, email |-> r.email])
           stored == ok /\ ("email" \in DOMAIN changes => EmailFree(r.user.id, r.email))
       IN IF stored
          THEN /\ users' = saveUser(users, r.user, changes)
               /\ Respond(p, [r EXCEPT !.nUsers = 1], "200", 0)
          ELSE /\ UNCHANGED users
               /\ Respond(p, r, "500", 0)
    /\ UNCHANGED <<tokens, nextUid, nextCode>>

updateProfile(p, ok) ==
    \/ \E u \in Uids : authenticate(p, u, "updateProfile", "up_find", ok)
    \/ \E email \in Emails : updateProfile_find(p, email, ok)
    \/ \E name \in Names : updateProfile_save(p, name, ok)

\* ---------------------------------------------- updateCurrentUserPassword
\* lines 259-267: User.findById(req.user.id) outside any try, then
\* checkPassword(current_password, user.password): 401 on mismatch.
updateCurrentUserPassword_find(p, current_password, ok) ==
    /\ req[p].op = "updateCurrentUserPassword" /\ req[p].pc = "cp_find"
    /\ LET r == req[p]
       IN IF ~ok THEN Respond(p, r, "none", 0)
          ELSE IF ~checkPassword(current_password, users[r.user.id].password)
          THEN Respond(p, r, "401", 0)
          ELSE Goto(p, [r EXCEPT !.pc = "cp_save", !.user = UserDoc(r.user.id)])
    /\ UNCHANGED <<users, tokens, nextUid, nextCode>>

\* lines 269-275: user.password = await hashPassword(password); user.save().
updateCurrentUserPassword_save(p, password, ok) ==
    /\ req[p].op = "updateCurrentUserPassword" /\ req[p].pc = "cp_save"
    /\ LET r == req[p]
       IN IF ok
          THEN /\ users' = saveUser(users, r.user, [password |-> hashPassword(password)])
               /\ Respond(p, [r EXCEPT !.nUsers = 1], "200", 0)
          ELSE /\ UNCHANGED users
               /\ Respond(p, r, "500", 0)
    /\ UNCHANGED <<tokens, nextUid, nextCode>>

updateCurrentUserPassword(p, ok) ==
    \/ \E u \in Uids : authenticate(p, u, "updateCurrentUserPassword", "cp_find", ok)
    \/ \E current_password \in Passwords : updateCurrentUserPassword_find(p, current_password, ok)
    \/ \E password \in Passwords : updateCurrentUserPassword_save(p, password, ok)

\* ---------------------------------------------------------- checkPassword
\* lines 279-289: User.findById(req.user.id) outside any try, then
\* checkPassword(password, user.password): 401 on mismatch, else 200.
AuthController_checkPassword_find(p, password, ok) ==
    /\ req[p].op = "checkPassword" /\ req[p].pc = "ck_find"
    /\ LET r == req[p]
       IN IF ~ok THEN Respond(p, r, "none", 0)
          ELSE IF ~checkPassword(password, users[r.user.id].password)
          THEN Respond(p, r, "401", 0)
          ELSE Respond(p, r, "200", 0)
    /\ UNCHANGED <<users, tokens, nextUid, nextCode>>

AuthController_checkPassword(p, ok) ==
    \/ \E u \in Uids : authenticate(p, u, "checkPassword", "ck_find", ok)
    \/ \E password \in Passwords : AuthController_checkPassword_find(p, password, ok)

\* ------------------------------------------------------------ the program
\* A code is consumed when the handler that presented it reports success.
ConsumedBy(e) ==
    IF e # Null /\ e.op \in {"confirmAccount", "updatePasswordWithToken"} /\ e.res = "200"
    THEN {e.token}
    ELSE {}

\* A code is a reset code when forgotPassword stored it (lines 176-179).
ResetIssuedBy(e) ==
    IF e # Null /\ e.op = "forgotPassword" /\ e.nIssued = 1
    THEN {e.tok}
    ELSE {}

\* A new request (at most MaxRequests in a run) is served in the lowest free
\* slot; `conc` tells whether it may arrive while another is in flight.
\* The step's persistence call resolves (ok) or, at most MaxFaults times in
\* a run, rejects.
Arrives(p, ok, conc) ==
    /\ ok \/ faults < MaxFaults
    /\ req[p].pc = "idle" =>
           /\ started < MaxRequests
           /\ \A q \in Procs : q < p => req[q].pc # "idle"
           /\ conc \/ \A q \in Procs : req[q].pc = "idle"

\* The counters and the history that every step keeps.
Account(p, ok) ==
    /\ started' = IF req[p].pc = "idle" THEN started + 1 ELSE started
    /\ faults' = IF ok THEN faults ELSE faults + 1
    /\ consumed' = consumed \cup ConsumedBy(last')
    /\ resetCodes' = resetCodes \cup ResetIssuedBy(last')
    /\ UNCHANGED routerVars

\* Requests are handled concurrently: the handlers' steps interleave.
Next ==
    \E p \in Procs, ok \in BOOLEAN :
        \/ Arrives(p, ok, TRUE) /\ createAccount(p, ok) /\ Account(p, ok)
        \/ Arrives(p, ok, TRUE) /\ confirmAccount(p, ok) /\ Account(p, ok)
        \/ Arrives(p, ok, TRUE) /\ login(p, ok) /\ Account(p, ok)
        \/ Arrives(p, ok, TRUE) /\ requestConfirmationCode(p, ok) /\ Account(p, ok)
        \/ Arrives(p, ok, TRUE) /\ forgotPassword(p, ok) /\ Account(p, ok)
        \/ Arrives(p, ok, TRUE) /\ validateToken(p, ok) /\ Account(p, ok)
        \/ Arrives(p, ok, TRUE) /\ updatePasswordWithToken(p, ok) /\ Account(p, ok)
        \/ Arrives(p, ok, TRUE) /\ user(p, ok) /\ Account(p, ok)
        \/ Arrives(p, ok, TRUE) /\ updateProfile(p, ok) /\ Account(p, ok)
        \/ Arrives(p, ok, TRUE) /\ updateCurrentUserPassword(p, ok) /\ Account(p, ok)
        \/ Arrives(p, ok, TRUE) /\ AuthController_checkPassword(p, ok) /\ Account(p, ok)

Spec == Init /\ [][Next]_vars

\* Requests are handled one at a time: a request arrives when none is in flight.
SeqNext ==
    \E p \in Procs, ok \in BOOLEAN :
        \/ Arrives(p, ok, FALSE) /\ createAccount(p, ok) /\ Account(p, ok)
        \/ Arrives(p, ok, FALSE) /\ confirmAccount(p, ok) /\ Account(p, ok)
        \/ Arrives(p, ok, FALSE) /\ login(p, ok) /\ Account(p, ok)
        \/ Arrives(p, ok, FALSE) /\ requestConfirmationCode(p, ok) /\ Account(p, ok)
        \/ Arrives(p, ok, FALSE) /\ forgotPassword(p, ok) /\ Account(p, ok)
        \/ Arrives(p, ok, FALSE) /\ validateToken(p, ok) /\ Account(p, ok)
        \/ Arrives(p, ok, FALSE) /\ updatePasswordWithToken(p, ok) /\ Account(p, ok)
        \/ Arrives(p, ok, FALSE) /\ user(p, ok) /\ Account(p, ok)
        \/ Arrives(p, ok, FALSE) /\ updateProfile(p, ok) /\ Account(p, ok)
        \/ Arrives(p, ok, FALSE) /\ updateCurrentUserPassword(p, ok) /\ Account(p, ok)
        \/ Arrives(p, ok, FALSE) /\ AuthController_checkPassword(p, ok) /\ Account(p, ok)

SeqSpec == Init /\ [][SeqNext]_vars


\* ========================================================= project router
\* src/src/routes/projectRoutes.ts.  A request runs the router's middleware
\* in order: router.use(authenticate), the router.param callbacks of the
\* parameters of the matched path, then the handlers listed on the route
\* (validators with handleInputsErrors, hasAuthorization, the controller).
\* One request is in the router at a time.
Accounts == 1..MaxAccounts
ProjectIds == 1..MaxProjects
TaskIds == 1..MaxTasks
TaskStatus == {"pending", "completed"}

Routes ==
    {"createProject", "getAllProjects", "getProjectById", "updateProject",
     "deleteProject", "createTask", "getProjectTasks", "getTaskById",
     "updateTask", "deleteTask", "updateStatus", "findMemberByEmail",
     "getProjectTeam", "addMemberById", "removeMemberById", "createNote",
     "getTaskNotes", "deleteNote"}

\* The chain with the gate left off the project delete route.
Chain_noGateOnDeleteProject(route) ==
    CASE route \in {"createProject", "getProjectById"} ->
             <<"authenticate", "handleInputsErrors", "controller">>
      [] route = "getAllProjects" ->
             <<"authenticate", "controller">>
      [] route = "updateProject" ->
             <<"authenticate", "projectExist", "handleInputsErrors",
               "hasAuthorization", "controller">>
      [] route \in {"deleteProject", "createTask", "findMemberByEmail", "addMemberById",
                    "removeMemberById"} ->
             <<"authenticate", "projectExist", "handleInputsErrors", "controller">>
      [] route \in {"getProjectTasks", "getProjectTeam"} ->
             <<"authenticate", "projectExist", "controller">>
      [] route \in {"getTaskById", "createNote", "deleteNote"} ->
             <<"authenticate", "projectExist", "taskExists", "taskBelongToProject",
               "handleInputsErrors", "controller">>
      [] route \in {"updateTask", "deleteTask", "updateStatus"} ->
             <<"authenticate", "projectExist", "taskExists", "taskBelongToProject",
               "hasAuthorization", "handleInputsErrors", "controller">>
      [] route = "getTaskNotes" ->
             <<"authenticate", "projectExist", "taskExists", "taskBelongToProject",
               "controller">>

\* The chain with the gate left off the task delete route.
Chain_noGateOnDeleteTask(route) ==
    CASE route \in {"createProject", "getProjectById"} ->
             <<"authenticate", "handleInputsErrors", "controller">>
      [] route = "getAllProjects" ->
             <<"authenticate", "controller">>
      [] route \in {"updateProject", "deleteProject"} ->
             <<"authenticate", "projectExist", "handleInputsErrors",
               "hasAuthorization", "controller">>
      [] route \in {"createTask", "findMemberByEmail", "addMemberById",
                    "removeMemberById"} ->
             <<"authenticate", "projectExist", "handleInputsErrors", "controller">>
      [] route \in {"getProjectTasks", "getProjectTeam"} ->
             <<"authenticate", "projectExist", "controller">>
      [] route \in {"getTaskById", "createNote", "deleteNote", "deleteTask"} ->
             <<"authenticate", "projectExist", "taskExists", "taskBelongToProject",
               "handleInputsErrors", "controller">>
      [] route \in {"updateTask", "updateStatus"} ->
             <<"authenticate", "projectExist", "taskExists", "taskBelongToProject",
               "hasAuthorization", "handleInputsErrors", "controller">>
      [] route = "getTaskNotes" ->
             <<"authenticate", "projectExist", "taskExists", "taskBelongToProject",
               "controller">>

\* The middleware of each route in the order Express runs it: line 14, the
\* param callbacks of lines 36 and 71-72, then the route's own handlers
\* (lines 16-33, 38-69, 74-105, 108-131, 134-150).
Chain(route) ==
    CASE route \in {"createProject", "getProjectById"} ->
             <<"authenticate", "handleInputsErrors", "controller">>
      [] route = "getAllProjects" ->
             <<"authenticate", "controller">>
      [] route \in {"updateProject", "deleteProject"} ->
             <<"authenticate", "projectExist", "handleInputsErrors",
               "hasAuthorization", "controller">>
      [] route \in {"createTask", "findMemberByEmail", "addMemberById",
                    "removeMemberById"} ->
             <<"authenticate", "projectExist", "handleInputsErrors", "controller">>
      [] route \in {"getProjectTasks", "getProjectTeam"} ->
             <<"authenticate", "projectExist", "controller">>
      [] route \in {"getTaskById", "createNote", "deleteNote"} ->
             <<"authenticate", "projectExist", "taskExists", "taskBelongToProject",
               "handleInputsErrors", "controller">>
      [] route \in {"updateTask", "deleteTask", "updateStatus"} ->
             <<"authenticate", "projectExist", "taskExists", "taskBelongToProject",
               "hasAuthorization", "handleInputsErrors", "controller">>
      [] route = "getTaskNotes" ->
             <<"authenticate", "projectExist", "taskExists", "taskBelongToProject",
               "controller">>

\* The request is at middleware `step` of its route.
At(step) == rreq.route # "none" /\ Chain(rreq.route)[rreq.stage] = step

\* Project Authorization Resolver: the role of an account on a loaded project.
Role(account, project) ==
    IF project = Null THEN "none"
    ELSE IF account = project.manager THEN "Owner"
    ELSE IF account \in project.team THEN "Member"
    ELSE "Unauthorized"

\* What a Member may do: read, and update a task's status.
MemberRoutes ==
    {"getProjectTasks", "getTaskById", "getProjectTeam", "getTaskNotes", "updateStatus"}

\* The decision of the gate for a role on a route.
Authorized(role, route) ==
    \/ role = "Owner"
    \/ role = "Member" /\ route \in MemberRoutes

\* next(): the request goes on to the next middleware of its route.
Continue(r) ==
    /\ rreq' = [r EXCEPT !.stage = @ + 1]
    /\ rlast' = Null

\* A middleware or the controller answers: the request leaves the router.
\* `res` is the status of a rejection, or "handler" when the controller ran.
End(r, res) ==
    /\ rreq' = NoRoute
    /\ rlast' = [route |-> r.route, account |-> r.account,
                 project |-> IF r.project = Null THEN 0 ELSE r.project.id,
                 task |-> IF r.task = Null THEN 0 ELSE r.task.id,
                 role |-> Role(r.account, r.project),
                 gate |-> r.gate, res |-> res]

\* line 14: router.use(authenticate).  Account 0 stands for a request without
\* a valid credential.
use_authenticate ==
    /\ rreq.route = "none"
    /\ served < MaxRequests
    /\ \E route \in Routes, account \in 0..MaxAccounts :
           /\ route = "createProject" => nextProject <= MaxProjects
           /\ route = "createTask" => nextTask <= MaxTasks
           /\ LET r == [NoRoute EXCEPT !.route = route, !.account = account, !.stage = 1]
              IN IF account = 0 THEN End(r, "401") ELSE Continue(r)
    /\ served' = served + 1
    /\ UNCHANGED <<projects, tasks, nextProject, nextTask>>

\* line 36: router.param('projectId', projectExist): loads req.project, 404
\* when there is none.
projectExist ==
    /\ At("projectExist")
    /\ \E projectId \in ProjectIds, ok \in BOOLEAN :
           IF ~ok THEN End(rreq, "500")
           ELSE IF projectId \notin DOMAIN projects THEN End(rreq, "404")
           ELSE Continue([rreq EXCEPT !.project =
                              [id |-> projectId, manager |-> projects[projectId].manager,
                               team |-> projects[projectId].team]])
    /\ UNCHANGED <<projects, tasks, nextProject, nextTask, served>>

\* line 71: router.param('taskId', taskExists): loads req.task, 404 when
\* there is none.
taskExists ==
    /\ At("taskExists")
    /\ \E taskId \in TaskIds, ok \in BOOLEAN :
           IF ~ok THEN End(rreq, "500")
           ELSE IF taskId \notin DOMAIN tasks THEN End(rreq, "404")
           ELSE Continue([rreq EXCEPT !.task =
                              [id |-> taskId, project |-> tasks[taskId].project]])
    /\ UNCHANGED <<projects, tasks, nextProject, nextTask, served>>

\* line 72: router.param('taskId', taskBelongToProject).
taskBelongToProject ==
    /\ At("taskBelongToProject")
    /\ IF rreq.task.project # rreq.project.id THEN End(rreq, "400") ELSE Continue(rreq)
    /\ UNCHANGED <<projects, tasks, nextProject, nextTask, served>>

\* The validators of the route and handleInputsErrors: 400 on invalid input.
handleInputsErrors ==
    /\ At("handleInputsErrors")
    /\ \E valid \in BOOLEAN :
           IF valid THEN Continue(rreq) ELSE End(rreq, "400")
    /\ UNCHANGED <<projects, tasks, nextProject, nextTask, served>>

\* hasAuthorization on lines 47, 54, 81, 92, 99.
hasAuthorization ==
    /\ At("hasAuthorization")
    /\ IF Authorized(Role(rreq.account, rreq.project), rreq.route)
       THEN Continue([rreq EXCEPT !.gate = "passed"])
       ELSE End([rreq EXCEPT !.gate = "rejected"], "Unauthorized")
    /\ UNCHANGED <<projects, tasks, nextProject, nextTask, served>>

\* The controller of route `route` is reached.
Reached(route) == At("controller") /\ rreq.route = route

\* line 24: the new project is owned by the requesting account.
ProjectController_createProject ==
    /\ Reached("createProject")
    /\ projects' = (nextProject :> [manager |-> rreq.account, team |-> {}]) @@ projects
    /\ nextProject' = nextProject + 1
    /\ End(rreq, "handler")
    /\ UNCHANGED <<tasks, nextTask, served>>

\* line 55.
ProjectController_deleteProject ==
    /\ Reached("deleteProject")
    /\ projects' = [id \in DOMAIN projects \ {rreq.project.id} |-> projects[id]]
    /\ End(rreq, "handler")
    /\ UNCHANGED <<tasks, nextProject, nextTask, served>>

\* line 64.
TaskController_createTask ==
    /\ Reached("createTask")
    /\ tasks' = (nextTask :> [project |-> rreq.project.id, status |-> "pending"]) @@ tasks
    /\ nextTask' = nextTask + 1
    /\ End(rreq, "handler")
    /\ UNCHANGED <<projects, nextProject, served>>

\* line 95.
TaskController_deleteTask ==
    /\ Reached("deleteTask")
    /\ tasks' = [id \in DOMAIN tasks \ {rreq.task.id} |-> tasks[id]]
    /\ End(rreq, "handler")
    /\ UNCHANGED <<projects, nextProject, nextTask, served>>

\* line 104.
TaskController_updateStatus ==
    /\ Reached("updateStatus")
    /\ \E status \in TaskStatus :
           tasks' = [tasks EXCEPT ![rreq.task.id].status = status]
    /\ End(rreq, "handler")
    /\ UNCHANGED <<projects, nextProject, nextTask, served>>

\* line 123.
TeamMemberController_addMemberById ==
    /\ Reached("addMemberById")
    /\ \E id \in Accounts :
           projects' = [projects EXCEPT ![rreq.project.id].team = @ \cup {id}]
    /\ End(rreq, "handler")
    /\ UNCHANGED <<tasks, nextProject, nextTask, served>>

\* line 130.
TeamMemberController_removeMemberById ==
    /\ Reached("removeMemberById")
    /\ \E userId \in Accounts :
           projects' = [projects EXCEPT ![rreq.project.id].team = @ \ {userId}]
    /\ End(rreq, "handler")
    /\ UNCHANGED <<tasks, nextProject, nextTask, served>>

\* The other controllers (lines 27, 32, 48, 68, 77, 88, 112, 116, 138, 142,
\* 149) write no project's owner or team and no task's project or status.
OtherControllers ==
    {"getAllProjects", "getProjectById", "updateProject", "getProjectTasks",
     "getTaskById", "updateTask", "findMemberByEmail", "getProjectTeam",
     "createNote", "getTaskNotes", "deleteNote"}

Controller ==
    /\ At("controller") /\ rreq.route \in OtherControllers
    /\ End(rreq, "handler")
    /\ UNCHANGED <<projects, tasks, nextProject, nextTask, served>>

RouterNext ==
    \/ use_authenticate /\ UNCHANGED authVars
    \/ projectExist /\ UNCHANGED authVars
    \/ taskExists /\ UNCHANGED authVars
    \/ taskBelongToProject /\ UNCHANGED authVars
    \/ handleInputsErrors /\ UNCHANGED authVars
    \/ hasAuthorization /\ UNCHANGED authVars
    \/ ProjectController_createProject /\ UNCHANGED authVars
    \/ ProjectController_deleteProject /\ UNCHANGED authVars
    \/ TaskController_createTask /\ UNCHANGED authVars
    \/ TaskController_deleteTask /\ UNCHANGED authVars
    \/ TaskController_updateStatus /\ UNCHANGED authVars
    \/ TeamMemberController_addMemberById /\ UNCHANGED authVars
    \/ TeamMemberController_removeMemberById /\ UNCHANGED authVars
    \/ Controller /\ UNCHANGED authVars

RouterSpec == Init /\ [][RouterNext]_vars

\* ================================================================= claims
TokenOps == {"confirmAccount", "validateToken", "updatePasswordWithToken"}

\* C1: under any interleaving of requestConfirmationCode, login and
\* forgotPassword calls, every reachable state holds at most one live token
\* per account.
C1_OneLiveTokenPerAccount ==
    \A u \in Uids : Cardinality(TokensByUser(u)) <= 1

\* C2: when requests are handled one at a time, every account has at most one
\* outstanding token in every state, and a token is stored for an account
\* only when no token of that account is left in the collection.
C2_SeqOneOutstandingToken ==
    /\ [](\A u \in Uids : Cardinality(TokensByUser(u)) <= 1)
    /\ [][\A t \in tokens' \ tokens : TokensByUser(t.user) = {}]_vars

\* C2 witness: a handler has deleted the previous token and stored a new one.
C2_Witness ==
    /\ last # Null
    /\ last.op \in {"login", "requestConfirmationCode", "forgotPassword"}
    /\ last.nDeleted = 1 /\ last.nIssued = 1
    /\ TokensByUser(last.uid) = {[token |-> last.tok, user |-> last.uid]}

\* C3: an account is stored unconfirmed, and its confirmed flag turns true
\* only in the user.save() of a confirmAccount whose presented code matched
\* a stored token of that very account.
C3_ConfirmedOnlyByConfirm ==
    [][\A u \in Uids :
          /\ (u \notin DOMAIN users /\ u \in DOMAIN users') => ~users'[u].confirmed
          /\ (u \in DOMAIN users /\ ~users[u].confirmed /\ users'[u].confirmed) =>
                \E p \in Procs :
                    /\ req[p].op = "confirmAccount" /\ req[p].pc = "cf_saves"
                    /\ "user" \in req[p].pending
                    /\ req'[p] # req[p]
                    /\ req[p].prev = [token |-> req[p].token, user |-> u]
       ]_vars

\* C3 witness: an account has been confirmed.
C3_Witness == \E u \in DOMAIN users : users[u].confirmed

\* C4: once confirmAccount or updatePasswordWithToken has reported success
\* with a code, no later request presenting that code succeeds (it is
\* answered InvalidToken, or InternalFailure when its lookup is rejected),
\* and no two requests report success with the same code.
C4_TokenConsumedOnce ==
    (last # Null /\ last.op \in TokenOps) =>
        /\ last.late => last.res \in {"404", "500"}
        /\ (last.res = "200" /\ last.op # "validateToken") => ~last.used

\* C5: when createAccount has answered, it has stored both the account and
\* its token, or neither.
C5_RegisterAllOrNothing ==
    (last # Null /\ last.op = "createAccount") => last.nUsers = last.nIssued

\* C6: when confirmAccount has answered for a token it found, the account
\* is confirmed if and only if the token is gone.
C6_ConfirmAtomic ==
    (last # Null /\ last.op = "confirmAccount" /\ last.uid # 0) =>
        (users[last.uid].confirmed <=> TokensByCode(last.token) = {})

\* C7 as stated: every login that finds an unconfirmed account returns no
\* session credential, issues exactly one token and sends exactly one email.
C7_LoginUnconfirmedAlwaysIssues ==
    (last # Null /\ last.op = "login" /\ last.unconf) =>
        /\ last.res # "jwt"
        /\ last.nIssued = 1 /\ last.nSent = 1

\* C7 amended: a login that finds an unconfirmed account returns no session
\* credential; it answers 401 having issued exactly one token and sent
\* exactly one email, or, when a persistence call is rejected, 500 having
\* issued no token and sent no email.
C7_LoginUnconfirmedIssuesOrFails ==
    (last # Null /\ last.op = "login" /\ last.unconf) =>
        \/ last.res = "401" /\ last.nIssued = 1 /\ last.nSent = 1
        \/ last.res = "500" /\ last.nIssued = 0 /\ last.nSent = 0

\* C7 witness: a login on an unconfirmed account has answered 401.
C7_Witness ==
    last # Null /\ last.op = "login" /\ last.unconf /\ last.res = "401" /\ last.nDeleted = 1

\* C8: when login answers 401, the only live token of the account is the
\* one this login stored (every earlier token of the account is gone).
C8_LoginReplacesToken ==
    (last # Null /\ last.op = "login" /\ last.res = "401") =>
        TokensByUser(last.uid) = {[token |-> last.tok, user |-> last.uid]}

C10_ConfirmedIsTerminal ==
    [][\A u \in DOMAIN users :
          users[u].confirmed => (u \in DOMAIN users' /\ users'[u].confirmed)]_vars

\* C10 witness: the password of a confirmed account has been replaced.
C10_Witness ==
    /\ last # Null /\ last.res = "200" /\ last.nUsers = 1
    /\ last.op \in {"updatePasswordWithToken", "updateCurrentUserPassword"}
    /\ users[last.uid].confirmed

\* C14: a handler never answers success after one of its persistence calls
\* was rejected (createAccount, confirmAccount and updatePasswordWithToken
\* answer 200 only with both of their writes done), and no request is left
\* without a response.
C14_FaultsAnswered500 ==
    last # Null =>
        /\ last.res # "none"
        /\ (last.op = "createAccount" /\ last.res = "200") =>
               (last.nUsers = 1 /\ last.nIssued = 1)
        /\ (last.op \in {"confirmAccount", "updatePasswordWithToken"} /\ last.res = "200") =>
               (last.nUsers = 1 /\ last.nDeleted = 1)

\* C15: requestConfirmationCode answers 404 exactly when its lookup finds no
\* account and 403 exactly when the account it finds is confirmed, in both
\* cases with no token deleted or stored and no email sent; it deletes,
\* stores or sends only for an unconfirmed account, and its 200 comes with
\* one new token stored.
C15_RequestCodeFailures ==
    (last # Null /\ last.op = "requestConfirmationCode") =>
        /\ last.res \in {"200", "403", "404", "500"}
        /\ last.res = "404" <=> (last.uid = 0 /\ last.res # "500")
        /\ last.res = "403" <=> (last.uid # 0 /\ ~last.unconf)
        /\ last.res \in {"403", "404"} =>
               (last.nDeleted = 0 /\ last.nIssued = 0 /\ last.nSent = 0)
        /\ (last.nDeleted + last.nIssued + last.nSent > 0) => last.unconf
        /\ last.res = "200" =>
               /\ last.unconf /\ last.nIssued = 1 /\ last.nSent = 1
               /\ [token |-> last.tok, user |-> last.uid] \in tokens

\* C15 witness: a request for a confirmed account was answered 403.
C15_Witness ==
    /\ last # Null /\ last.op = "requestConfirmationCode" /\ last.res = "403"
    /\ users[last.uid].confirmed

\* C16: validateToken writes nothing (tokens and accounts are the same
\* before and after its step), and after it answers 200 the presented token
\* is still stored.
C16_ValidateDoesNotConsume ==
    /\ []((last # Null /\ last.op = "validateToken" /\ last.res = "200") =>
              TokensByCode(last.token) # {})
    /\ [][(last' # Null /\ last'.op = "validateToken") =>
              (tokens' = tokens /\ users' = users)]_vars

\* C16 witness: a validation succeeded for a code an earlier validation had
\* not removed.
C16_Witness ==
    /\ last # Null /\ last.op = "validateToken" /\ last.res = "200"
    /\ TokensByCode(last.token) # {}

\* C17: a login that finds a confirmed account answers with a session
\* credential exactly when the supplied password hashes to the stored
\* password, and 404 (password incorrect) otherwise; it writes no account and
\* no token and sends no email.
C17_LoginConfirmedByPassword ==
    /\ []((last # Null /\ last.op = "login" /\ last.uid # 0 /\ ~last.unconf) =>
              /\ last.res \in {"jwt", "404"}
              /\ last.res = "jwt" <=>
                     users[last.uid].password = hashPassword(last.password)
              /\ last.nIssued = 0 /\ last.nDeleted = 0
              /\ last.nSent = 0 /\ last.nUsers = 0)
    /\ [][(last' # Null /\ last'.op = "login" /\ last'.uid # 0 /\ ~last'.unconf) =>
              (tokens' = tokens /\ users' = users)]_vars

\* C17 witness: a login with the password a reset or change stored, which is
\* not the password of the registration, got its credential.
C17_Witness ==
    /\ last # Null /\ last.op = "login" /\ last.res = "jwt"
    /\ last.password \notin NewPasswords

\* C19: a handler that has sent an email has stored the token whose code the
\* email carries.
C19_EmailAfterSave ==
    (last # Null /\ last.nSent = 1) => last.nIssued = 1

\* C20: a stored token is accepted whatever handler stored it: confirmAccount,
\* validateToken and updatePasswordWithToken answer 404 only for a code that
\* no stored token carries, and a confirmAccount whose save resolves confirms
\* the account, with a reset code as with any other.
C20_TokensPurposeAgnostic ==
    /\ (last # Null /\ last.op \in TokenOps /\ last.res = "404") =>
           TokensByCode(last.token) = {}
    /\ (last # Null /\ last.op = "confirmAccount" /\ last.res = "200" /\ last.nUsers = 1) =>
           users[last.uid].confirmed

\* C20 witness: a code stored by forgotPassword for an unconfirmed account
\* has confirmed that account.
C20_Witness ==
    /\ last # Null /\ last.op = "confirmAccount" /\ last.res = "200"
    /\ last.token \in resetCodes
    /\ last.unconf /\ last.nUsers = 1
    /\ users[last.uid].confirmed

\* The routes the spec reserves to the owner.
OwnerOnlyRoutes ==
    {"updateProject", "deleteProject", "createTask", "updateTask", "deleteTask",
     "addMemberById", "removeMemberById"}

\* The routes that carry the gate according to the claim.
GatedRoutes == {"updateProject", "deleteProject", "updateTask", "deleteTask", "updateStatus"}

\* C11: a request of a Member (not the owner) on an owner-only route of the
\* project never reaches the controller.
C11_MemberNeverReachesOwnerRoutes ==
    (rlast # Null /\ rlast.role = "Member" /\ rlast.route \in OwnerOnlyRoutes) =>
        rlast.res # "handler"

C13_OutsiderNeverReachesHandler ==
    (rlast # Null /\ rlast.role = "Unauthorized") => rlast.res # "handler"

\* C18: on the gated routes the gate decides only for a project that was found
\* and, on task routes, a task that was found and belongs to that project;
\* and projects and tasks change only after the gate has let the request pass.
C18_GateAfterExistenceBeforeMutation ==
    /\ []((rreq.route \in GatedRoutes /\ rreq.gate # "none") =>
              /\ rreq.project # Null /\ rreq.project.id \in DOMAIN projects
              /\ rreq.route \in {"updateTask", "deleteTask", "updateStatus"} =>
                     /\ rreq.task # Null /\ rreq.task.id \in DOMAIN tasks
                     /\ tasks[rreq.task.id].project = rreq.project.id)
    /\ []((rlast # Null /\ rlast.route \in GatedRoutes /\ rlast.gate # "none") =>
              /\ rlast.project # 0
              /\ rlast.route \in {"updateTask", "deleteTask", "updateStatus"} =>
                     rlast.task # 0)
    /\ [][(rreq.route \in GatedRoutes /\ (projects' # projects \/ tasks' # tasks)) =>
              rreq.gate = "passed"]_vars

\* C18 witness: a task delete has passed the gate and removed the task.
C18_Witness ==
    /\ rlast # Null /\ rlast.route = "deleteTask" /\ rlast.res = "handler"
    /\ rlast.gate = "passed" /\ rlast.task \notin DOMAIN tasks
====
